---- MODULE Spec2Model ----
(***************************************************************************)
(* Model of backend/app/main.py of TDX_bus_demo: the OAuth2 token cache    *)
(* (_get_token), the upstream client (_tdx_get), the route filter          *)
(* (_filter_by_route) and the merge engine (merge_stop_eta).               *)
(*                                                                         *)
(* Four specifications share the variables:                                *)
(*   Spec        concurrent _get_token calls over the shared token_cache   *)
(*   SpecFetch   concurrent _tdx_get calls (token step, then the data GET) *)
(*   SpecFilter  _filter_by_route applied to bounded names                 *)
(*   SpecMerge   merge_stop_eta applied to bounded record lists            *)
(* An optional (JSON null / missing key) value is the empty tuple, a       *)
(* present value v is the one-element tuple <<v>>.                         *)
(***************************************************************************)
EXTENDS Integers, Sequences, FiniteSets, TLC

VARIABLES
    now,          \* time.time(), in seconds
    creds,        \* TDX_APP_ID and TDX_APP_KEY are both non-empty
    token_cache,  \* the module-level dict token_cache
    req,          \* one call per request: its position and its locals
    last,         \* the request whose token exchange succeeded most recently (0: none)
    froute,       \* _filter_by_route: the requested route
    frows,        \* _filter_by_route: the rows given
    fout,         \* _filter_by_route: the rows returned (once fpc = "done")
    fpc,
    stop_rows,    \* merge_stop_eta: first argument
    eta_rows,     \* merge_stop_eta: second argument
    merged,       \* merge_stop_eta: the returned list (once mpc = "done")
    mpc

vars == <<now, creds, token_cache, req, last,
          froute, frows, fout, fpc, stop_rows, eta_rows, merged, mpc>>

tokenVars == <<now, creds, token_cache, req, last>>
filterVars == <<froute, frows, fout, fpc>>
mergeVars == <<stop_rows, eta_rows, merged, mpc>>

Absent == <<>>
Some(v) == <<v>>
Max(a, b) == IF a >= b THEN a ELSE b

(***************************************************************************)
(* Token cache (_get_token) and upstream client (_tdx_get)                 *)
(***************************************************************************)

NumReq == 3
NumFetch == 2
MaxTicks == 2

TOKEN_SAFETY_WINDOW == 30

Procs == 1..NumReq
FetchProcs == 1..NumFetch
Times == {10 * k : k \in 0..MaxTicks}

\* the access_token string the provider hands out in answer to request p's POST
TokenNames == <<"tok1", "tok2", "tok3", "tok4", "tok5">>
TokenOf(p) == TokenNames[p]

\* expires_in values a token response may carry (Absent: the key is missing)
ExpiresIns == {Absent, Some(40), Some(60)}

\* payload.get("expires_in", 0)
ExpiresInOf(payload) ==
    IF payload.expires_in = Absent THEN 0 ELSE payload.expires_in[1]

\* not access_token
Falsy(tok) == tok = Absent \/ tok[1] = ""

\* faulty variant: the token is still served at expires_at itself
CacheValid_NonStrict(c, t) == ~Falsy(c.access_token) /\ t <= c.expires_at

\* faulty variant: the comparison with expires_at is the wrong way round
CacheValid_Inverted(c, t) == ~Falsy(c.access_token) /\ t > c.expires_at

\* token_cache["access_token"] and now < token_cache["expires_at"]
CacheValid(c, t) == ~Falsy(c.access_token) /\ t < c.expires_at

\* now + max(expires_in - TOKEN_SAFETY_WINDOW, 0)
ExpiresAt(t, e) == t + Max(e - TOKEN_SAFETY_WINDOW, 0)

\* faulty variant: expires_at is only ever moved forward, so it can outlive
\* the token it was computed for
CacheWrite_KeepLater(c, r, ans) ==
    [access_token |-> ans.access_token,
     expires_at |-> Max(c.expires_at, ExpiresAt(r.now, ExpiresInOf(ans)))]

\* lines 65-66: both keys are written with no await in between; `now` is the
\* value read at line 41, before the POST
CacheWrite(c, r, ans) ==
    [access_token |-> ans.access_token,
     expires_at |-> ExpiresAt(r.now, ExpiresInOf(ans))]

\* what the token endpoint may answer to request p: a transport failure, a
\* non-2xx status, or a 2xx JSON object with or without the two keys
TokenAnswers(p) ==
    {[kind |-> k, access_token |-> Absent, expires_in |-> Absent] :
        k \in {"transport", "non2xx"}}
    \cup
    {[kind |-> "ok", access_token |-> a, expires_in |-> Absent] :
        a \in {Absent, Some("")}}
    \cup
    {[kind |-> "ok", access_token |-> Some(TokenOf(p)), expires_in |-> e] :
        e \in ExpiresIns}

\* what the data endpoint may answer: 2xx, a non-2xx status, a transport failure
DataAnswers ==
    {[kind |-> "ok", status |-> 200],
     [kind |-> "status", status |-> 404],
     [kind |-> "transport", status |-> 0]}

InitCache == [access_token |-> Absent, expires_at |-> 0]

InitReq ==
    [pc |-> "idle", now |-> 0, hit |-> FALSE, posts |-> 0, gets |-> 0,
     post_answer |-> Absent, get_answer |-> Absent,
     token |-> Absent, status |-> 0, data |-> FALSE]

InitFilterIdle ==
    /\ froute = <<>>
    /\ frows = <<>>
    /\ fout = <<>>
    /\ fpc = "off"

InitMergeIdle ==
    /\ stop_rows = <<>>
    /\ eta_rows = <<>>
    /\ merged = <<>>
    /\ mpc = "off"

InitTokenIdle ==
    /\ now = 0
    /\ creds = TRUE
    /\ token_cache = InitCache
    /\ req = <<>>
    /\ last = 0

Init ==
    /\ now = 0
    /\ creds \in BOOLEAN
    /\ token_cache = InitCache
    /\ req = [p \in Procs |-> InitReq]
    /\ last = 0
    /\ InitFilterIdle
    /\ InitMergeIdle

InitFetch ==
    /\ now = 0
    /\ creds \in BOOLEAN
    /\ token_cache = InitCache
    /\ req = [p \in FetchProcs |-> InitReq]
    /\ last = 0
    /\ InitFilterIdle
    /\ InitMergeIdle

\* _get_token lines 41-54, up to the await of the POST: the request's record
\* when the call returns from the cache ("token"), raises ("done") or suspends
TokenCall(r, c, t) ==
    LET r0 == [r EXCEPT !.now = t]
    IN  IF CacheValid(c, t)
        THEN [r0 EXCEPT !.hit = TRUE, !.token = c.access_token, !.pc = "token"]
        ELSE IF ~creds
        THEN [r0 EXCEPT !.status = 500, !.pc = "done"]
        ELSE [r0 EXCEPT !.posts = @ + 1, !.pc = "await_post"]

\* _get_token lines 55-63 and 67 once the POST is answered: raise 502 or
\* return the access token
TokenResume(r, ans) ==
    LET r0 == [r EXCEPT !.post_answer = Some(ans)]
    IN  IF ans.kind # "ok" \/ Falsy(ans.access_token)
        THEN [r0 EXCEPT !.status = 502, !.pc = "done"]
        ELSE [r0 EXCEPT !.token = ans.access_token, !.pc = "token"]

\* _tdx_get lines 75-79: with the token in hand the GET is sent at once
SendGet(r) ==
    IF r.pc = "token" THEN [r EXCEPT !.gets = @ + 1, !.pc = "await_get"] ELSE r

\* faulty variant: a non-2xx answer is reported as 502, not with its status
DataResume_Always502(r, ans) ==
    [r EXCEPT !.get_answer = Some(ans),
              !.status = IF ans.kind = "ok" THEN 200 ELSE 502,
              !.data = (ans.kind = "ok"),
              !.pc = "done"]

\* _tdx_get lines 80-93 once the GET is answered
DataResume(r, ans) ==
    [r EXCEPT !.get_answer = Some(ans),
              !.status = CASE ans.kind = "ok" -> 200
                           [] ans.kind = "status" -> ans.status
                           [] OTHER -> 502,
              !.data = (ans.kind = "ok"),
              !.pc = "done"]

\* a caller awaits _get_token(client)
GetToken(p) ==
    /\ req[p].pc = "idle"
    /\ req' = [req EXCEPT ![p] = TokenCall(req[p], token_cache, now)]
    /\ UNCHANGED <<now, creds, token_cache, last, filterVars, mergeVars>>

\* the cache and the bookkeeping after request p's POST is answered with ans
AnswerEffect(p, ans) ==
    IF ans.kind = "ok" /\ ~Falsy(ans.access_token)
    THEN /\ token_cache' = CacheWrite(token_cache, req[p], ans)
         /\ last' = p
    ELSE UNCHANGED <<token_cache, last>>

TokenResponse(p) ==
    /\ req[p].pc = "await_post"
    /\ \E ans \in TokenAnswers(p) :
         /\ req' = [req EXCEPT ![p] = TokenResume(req[p], ans)]
         /\ AnswerEffect(p, ans)
    /\ UNCHANGED <<now, creds, filterVars, mergeVars>>

\* a caller awaits _tdx_get(path, city, route): lines 72-79
TdxGet(p) ==
    /\ req[p].pc = "idle"
    /\ req' = [req EXCEPT ![p] = SendGet(TokenCall(req[p], token_cache, now))]
    /\ UNCHANGED <<now, creds, token_cache, last, filterVars, mergeVars>>

FetchTokenResponse(p) ==
    /\ req[p].pc = "await_post"
    /\ \E ans \in TokenAnswers(p) :
         /\ req' = [req EXCEPT ![p] = SendGet(TokenResume(req[p], ans))]
         /\ AnswerEffect(p, ans)
    /\ UNCHANGED <<now, creds, filterVars, mergeVars>>

DataResponse(p) ==
    /\ req[p].pc = "await_get"
    /\ \E ans \in DataAnswers : req' = [req EXCEPT ![p] = DataResume(req[p], ans)]
    /\ UNCHANGED <<now, creds, token_cache, last, filterVars, mergeVars>>

\* the clock: time.time() is read in steps of ten seconds and does not go back
Tick ==
    /\ now < 10 * MaxTicks
    /\ now' = now + 10
    /\ UNCHANGED <<creds, token_cache, req, last, filterVars, mergeVars>>

Next ==
    \/ \E p \in Procs : GetToken(p)
    \/ \E p \in Procs : TokenResponse(p)
    \/ Tick

NextFetch ==
    \/ \E p \in FetchProcs : TdxGet(p)
    \/ \E p \in FetchProcs : FetchTokenResponse(p)
    \/ \E p \in FetchProcs : DataResponse(p)
    \/ Tick

Spec == Init /\ [][Next]_vars

SpecFetch == InitFetch /\ [][NextFetch]_vars

(***************************************************************************)
(* Route filter (_filter_by_route).  A name is a sequence of characters;   *)
(* BranchMarker stands for the CJK character U+5340 that marks a branch    *)
(* route, " " for any whitespace str.strip() removes, "A" and "a" for a    *)
(* cased letter and its lower case.                                        *)
(***************************************************************************)

MaxRouteLen == 2
MaxNameLen == 3

BranchMarker == "qu"
Chars == {"a", "A", " ", BranchMarker}

RECURSIVE StringsUpTo(_)
StringsUpTo(n) ==
    IF n = 0 THEN {<<>>}
    ELSE LET shorter == StringsUpTo(n - 1)
         IN  shorter \cup {Append(w, c) : w \in {v \in shorter : Len(v) = n - 1}, c \in Chars}

\* str.lower()
LowerChar(c) == IF c = "A" THEN "a" ELSE c
Lower(w) == [i \in 1..Len(w) |-> LowerChar(w[i])]

\* str.strip()
RECURSIVE LStrip(_)
LStrip(w) == IF w # <<>> /\ Head(w) = " " THEN LStrip(Tail(w)) ELSE w
RECURSIVE RStrip(_)
RStrip(w) ==
    IF w # <<>> /\ w[Len(w)] = " " THEN RStrip(SubSeq(w, 1, Len(w) - 1)) ELSE w
Strip(w) == RStrip(LStrip(w))

\* _normalize_route_name: str(name or "").strip().lower()
NormalizeRouteName(name) ==
    IF name = Absent THEN <<>> ELSE Lower(Strip(name[1]))

\* str.startswith
StartsWith(w, prefix) ==
    Len(w) >= Len(prefix) /\ SubSeq(w, 1, Len(prefix)) = prefix

\* faulty variant: any prefix match counts, the branch marker is not looked at
NameMatches_AnyPrefix(name, target) ==
    IF name = Absent \/ name[1] = <<>> THEN FALSE
    ELSE StartsWith(NormalizeRouteName(name), target)

\* name_matches, lines 108-119
NameMatches(name, target) ==
    IF name = Absent \/ name[1] = <<>> THEN FALSE
    ELSE LET norm == NormalizeRouteName(name)
         IN  IF norm = target THEN TRUE
             ELSE IF StartsWith(norm, target)
             THEN LET suffix == SubSeq(norm, Len(target) + 1, Len(norm))
                  IN  IF suffix # <<>> /\ suffix[1] = BranchMarker THEN FALSE ELSE TRUE
             ELSE FALSE

\* (row.get(key) or {}).get(lang)
NameField(row, key, lang) ==
    IF row[key] = Absent THEN Absent ELSE row[key][1][lang]

\* the condition of the list comprehension, lines 124-127
RowMatches(row, target) ==
    \/ NameMatches(NameField(row, "RouteName", "Zh_tw"), target)
    \/ NameMatches(NameField(row, "RouteName", "En"), target)
    \/ NameMatches(NameField(row, "SubRouteName", "Zh_tw"), target)
    \/ NameMatches(NameField(row, "SubRouteName", "En"), target)

\* _filter_by_route, lines 100-128
FilterByRoute(rows, route) ==
    LET target == NormalizeRouteName(Some(route))
    IN  SelectSeq(rows, LAMBDA row : RowMatches(row, target))

\* the rows given to the filter: one upstream record whose name fields are
\* absent or hold the name w
NameStructs(w) ==
    {Absent} \cup
    {Some([Zh_tw |-> zh, En |-> en]) : zh \in {Absent, Some(w)}, en \in {Absent, Some(w)}}
RowsNamed(w) ==
    {[RouteName |-> rn, SubRouteName |-> sn] : rn \in NameStructs(w), sn \in NameStructs(w)}

InitFilter ==
    /\ froute \in StringsUpTo(MaxRouteLen) \ {<<>>}
    /\ \E w \in StringsUpTo(MaxNameLen) : frows \in {<<row>> : row \in RowsNamed(w)}
    /\ fout = <<>>
    /\ fpc = "call"
    /\ InitTokenIdle
    /\ InitMergeIdle

\* fetch_eta / fetch_stop_of_route return _filter_by_route(rows, route)
Filter ==
    /\ fpc = "call"
    /\ fout' = FilterByRoute(frows, froute)
    /\ fpc' = "done"
    /\ UNCHANGED <<froute, frows, tokenVars, mergeVars>>

NextFilter == Filter

SpecFilter == InitFilter /\ [][NextFilter]_vars

(***************************************************************************)
(* Claims on the route filter                                              *)
(***************************************************************************)

\* the four name fields of a row
NameFieldsOf(row) ==
    {NameField(row, key, lang) : key \in {"RouteName", "SubRouteName"}, lang \in {"Zh_tw", "En"}}

\* w is R + the branch marker + some suffix
IsBranchOf(w, R) ==
    Len(w) > Len(R) /\ SubSeq(w, 1, Len(R)) = R /\ w[Len(R) + 1] = BranchMarker

\* w is R + s for an s that does not start with the branch marker
IsPlainExtensionOf(w, R) ==
    /\ Len(w) >= Len(R)
    /\ SubSeq(w, 1, Len(R)) = R
    /\ (Len(w) > Len(R) => w[Len(R) + 1] # BranchMarker)

EndsInWhitespace(w) == w # <<>> /\ w[Len(w)] = " "
IsBlank(w) == \A i \in 1..Len(w) : w[i] = " "

InOutput(row) == \E i \in 1..Len(fout) : fout[i] = row

\* C4 as stated: for any requested route R, a record whose name fields are each
\* absent or R + marker + suffix is not in the output, and a record with a
\* name field R + s, s not starting with the marker, is in the output.
C4_Original ==
    fpc = "done" =>
        \A i \in 1..Len(frows) :
            /\ (\A f \in NameFieldsOf(frows[i]) : f = Absent \/ IsBranchOf(f[1], froute))
                  => ~InOutput(frows[i])
            /\ (\E f \in NameFieldsOf(frows[i]) : f # Absent /\ IsPlainExtensionOf(f[1], froute))
                  => InOutput(frows[i])

\* C4 as amended: the exclusion holds for every R that does not end in
\* whitespace, the inclusion for every R that has a non-whitespace character.
C4_BranchExclusion ==
    fpc = "done" =>
        \A i \in 1..Len(frows) :
            /\ (/\ ~EndsInWhitespace(froute)
                /\ \A f \in NameFieldsOf(frows[i]) : f = Absent \/ IsBranchOf(f[1], froute))
                  => ~InOutput(frows[i])
            /\ (/\ ~IsBlank(froute)
                /\ \E f \in NameFieldsOf(frows[i]) : f # Absent /\ IsPlainExtensionOf(f[1], froute))
                  => InOutput(frows[i])

\* a branch-route record was dropped for a non-empty requested route
C4_Witness ==
    /\ fpc = "done"
    /\ ~IsBlank(froute) /\ ~EndsInWhitespace(froute)
    /\ \E f \in NameFieldsOf(frows[1]) : f # Absent /\ IsBranchOf(f[1], froute)
    /\ \A f \in NameFieldsOf(frows[1]) : f = Absent \/ IsBranchOf(f[1], froute)
    /\ fout = <<>>

(***************************************************************************)
(* Merge engine (merge_stop_eta).  The StopName of a stop and the "name"   *)
(* of a stop entry are copied through unread by every branch and are left  *)
(* out.  `merged` is the dict of buckets in insertion order.               *)
(***************************************************************************)

MaxRows == 2
MaxStops == 3
MaxEta == 1

StopUIDs == {Absent, Some(""), Some("A1"), Some("A2")}
StopSequences == {Absent, Some(0), Some(1)}
Directions == {Absent, Some(-1), Some(0)}

\* the stops of the input: StopUID and StopSequence vary, StopID numbers the
\* stops in input order so that every occurrence can be told apart
StopChoices == [StopUID : StopUIDs, StopSequence : StopSequences]
TaggedStop(c, i) ==
    [StopUID |-> c.StopUID, StopSequence |-> c.StopSequence, StopID |-> Some(i)]

\* the r-th stop-of-route record: the first carries all its keys, the later
\* ones lack RouteName and UpdateTime
StopRecord(r, direction, stops) ==
    [Direction |-> direction,
     Stops |-> stops,
     RouteName |-> IF r = 1 THEN Some([Zh_tw |-> Some("R1")]) ELSE Absent,
     Headsign |-> Some(<<"H", r>>),
     UpdateTime |-> IF r = 1 THEN Some(<<"T", r>>) ELSE Absent]

\* k records holding, in order, the stops f[1..n]; owner[i] is the record of f[i]
BuildStopRows(k, f, owner, dirs) ==
    [r \in 1..k |->
        LET lo == Cardinality({i \in DOMAIN f : owner[i] < r})
            cnt == Cardinality({i \in DOMAIN f : owner[i] = r})
        IN  StopRecord(r, dirs[r], [j \in 1..cnt |-> TaggedStop(f[lo + j], lo + j)])]

\* the j-th ETA record: its four ETA keys carry values that name it
EtaRecord(j, uid, direction) ==
    [StopUID |-> uid, Direction |-> direction,
     EstimateTime |-> Some(60 * j), StopStatus |-> Some(j),
     PlateNumb |-> Some(<<"P", j>>), NextBusTime |-> Some(<<"N", j>>)]

InitMerge ==
    /\ \E k \in 0..MaxRows, n \in 0..MaxStops :
         \E f \in [1..n -> StopChoices], owner \in [1..n -> 1..k], dirs \in [1..k -> Directions] :
            /\ \A i \in 1..n, j \in 1..n : i <= j => owner[i] <= owner[j]
            /\ stop_rows = BuildStopRows(k, f, owner, dirs)
    /\ \E m \in 0..MaxEta :
         \E uids \in [1..m -> StopUIDs], dirs \in [1..m -> Directions] :
            eta_rows = [j \in 1..m |-> EtaRecord(j, uids[j], dirs[j])]
    /\ merged = <<>>
    /\ mpc = "call"
    /\ InitTokenIdle
    /\ InitFilterIdle

\* faulty variant of EtaFor below: the lookup ignores the direction
EtaFor_IgnoreDirection(eta, uid, direction) ==
    LET idx == {j \in 1..Len(eta) :
                    /\ eta[j].StopUID # Absent /\ eta[j].Direction # Absent
                    /\ eta[j].StopUID = uid}
    IN  IF idx = {} THEN Absent
        ELSE Some(eta[CHOOSE j \in idx : \A i \in idx : i <= j])

\* lines 149-155 and 179: eta_lookup.get(uid, {}).get(direction, {}); a later
\* row with the same StopUID and Direction replaces an earlier one, rows with a
\* None StopUID or Direction are never stored
EtaFor(eta, uid, direction) ==
    LET idx == {j \in 1..Len(eta) :
                    /\ eta[j].StopUID # Absent /\ eta[j].Direction # Absent
                    /\ eta[j].StopUID = uid /\ eta[j].Direction = direction}
    IN  IF idx = {} THEN Absent
        ELSE Some(eta[CHOOSE j \in idx : \A i \in idx : i <= j])

\* eta.get(key) of the row found, or of {} when none was
EtaGet(e, key) == IF e = Absent THEN Absent ELSE e[1][key]

\* line 161
DirectionKey(direction) == IF direction = Absent THEN -1 ELSE direction[1]

\* if uid / s.get("stop_uid")
TruthyUID(uid) == uid # Absent /\ uid[1] # ""

\* lines 180-195: the entry appended for stop s of a record with this Direction
StopEntry(s, direction, eta) ==
    LET e == EtaFor(eta, s.StopUID, direction)
    IN  [stop_uid |-> s.StopUID,
         stop_id |-> s.StopID,
         stop_sequence |-> s.StopSequence,
         direction |-> direction,
         estimate_seconds |-> EtaGet(e, "EstimateTime"),
         stop_status |-> EtaGet(e, "StopStatus"),
         plate_numb |-> EtaGet(e, "PlateNumb"),
         next_bus_time |-> EtaGet(e, "NextBusTime")]

\* line 172
SeenUIDs(entries) ==
    {entries[i].stop_uid : i \in {j \in 1..Len(entries) : TruthyUID(entries[j].stop_uid)}}

\* faulty variant: every stop is appended, seen or not
AddStop_NoDedup(entries, s, direction, eta) ==
    Append(entries, StopEntry(s, direction, eta))

\* lines 174-195 for one stop; seen_uids always equals SeenUIDs of the bucket
AddStop(entries, s, direction, eta) ==
    IF TruthyUID(s.StopUID) /\ s.StopUID \in SeenUIDs(entries)
    THEN entries
    ELSE Append(entries, StopEntry(s, direction, eta))

\* lines 173-195: the loop over the stops of one record
RECURSIVE AddStops(_, _, _, _)
AddStops(entries, stops, direction, eta) ==
    IF stops = <<>> THEN entries
    ELSE AddStops(AddStop(entries, Head(stops), direction, eta), Tail(stops), direction, eta)

\* the bucket merged.setdefault creates, lines 164-170
NewBucket(key, rec) ==
    [direction |-> key,
     stops |-> <<>>,
     route_name |-> IF rec.RouteName = Absent \/ rec.RouteName[1].Zh_tw = Absent
                    THEN Some("") ELSE rec.RouteName[1].Zh_tw,
     headsign |-> IF rec.Headsign = Absent THEN Some("") ELSE rec.Headsign,
     update_time |-> rec.UpdateTime]

BucketIndex(m, key) ==
    IF \E i \in 1..Len(m) : m[i].direction = key
    THEN CHOOSE i \in 1..Len(m) : m[i].direction = key
    ELSE 0

\* faulty variant: a later record of the direction replaces the bucket's fields
GetOrCreate_Overwrite(m, key, rec) ==
    IF BucketIndex(m, key) # 0
    THEN [m EXCEPT ![BucketIndex(m, key)] =
            [NewBucket(key, rec) EXCEPT !.stops = m[BucketIndex(m, key)].stops]]
    ELSE Append(m, NewBucket(key, rec))

\* merged.setdefault(key, {...}), lines 162-171: an existing bucket is kept
GetOrCreate(m, key, rec) ==
    IF BucketIndex(m, key) # 0 THEN m ELSE Append(m, NewBucket(key, rec))

\* lines 159-195: one stop-of-route record
MergeRecord(m, rec, eta) ==
    LET key == DirectionKey(rec.Direction)
        m1 == GetOrCreate(m, key, rec)
        b == BucketIndex(m1, key)
    IN  [m1 EXCEPT ![b].stops = AddStops(@, rec.Stops, rec.Direction, eta)]

RECURSIVE MergeRecords(_, _, _)
MergeRecords(m, rows, eta) ==
    IF rows = <<>> THEN m
    ELSE MergeRecords(MergeRecord(m, Head(rows), eta), Tail(rows), eta)

\* x.get("stop_sequence") or 0
SortKey(entry) == IF entry.stop_sequence = Absent THEN 0 ELSE entry.stop_sequence[1]

\* faulty variant: x goes in front of the entries of equal key (not stable)
InsertSorted_BeforeEquals(sorted, x) ==
    LET n == Cardinality({i \in 1..Len(sorted) : SortKey(sorted[i]) < SortKey(x)})
    IN  SubSeq(sorted, 1, n) \o <<x>> \o SubSeq(sorted, n + 1, Len(sorted))

\* list.sort is stable: x goes behind the entries whose key is not greater
InsertSorted(sorted, x) ==
    LET n == Cardinality({i \in 1..Len(sorted) : SortKey(sorted[i]) <= SortKey(x)})
    IN  SubSeq(sorted, 1, n) \o <<x>> \o SubSeq(sorted, n + 1, Len(sorted))

\* bucket["stops"].sort(key=...), line 198
RECURSIVE SortStops(_, _)
SortStops(sorted, rest) ==
    IF rest = <<>> THEN sorted
    ELSE SortStops(InsertSorted(sorted, Head(rest)), Tail(rest))

\* merge_stop_eta, lines 145-200
MergeStopEta(rows, eta) ==
    LET m == MergeRecords(<<>>, rows, eta)
    IN  [i \in 1..Len(m) |-> [m[i] EXCEPT !.stops = SortStops(<<>>, @)]]

Merge ==
    /\ mpc = "call"
    /\ merged' = MergeStopEta(stop_rows, eta_rows)
    /\ mpc' = "done"
    /\ UNCHANGED <<stop_rows, eta_rows, tokenVars, filterVars>>

NextMerge == Merge

SpecMerge == InitMerge /\ [][NextMerge]_vars

(***************************************************************************)
(* Claims on the merge engine                                              *)
(***************************************************************************)

\* the stops of the input in input order, each with the record it is in
RECURSIVE InputStops(_)
InputStops(r) ==
    IF r > Len(stop_rows) THEN <<>>
    ELSE [j \in 1..Len(stop_rows[r].Stops) |-> [rec |-> r, stop |-> stop_rows[r].Stops[j]]]
         \o InputStops(r + 1)

\* the input stops of the records whose direction maps to this bundle key
StopsOfKey(key) ==
    SelectSeq(InputStops(1), LAMBDA o : DirectionKey(stop_rows[o.rec].Direction) = key)

\* the first record of the input whose direction maps to this bundle key
FirstRecordOfKey(key) ==
    stop_rows[CHOOSE r \in 1..Len(stop_rows) :
        /\ DirectionKey(stop_rows[r].Direction) = key
        /\ \A q \in 1..(r - 1) : DirectionKey(stop_rows[q].Direction) # key]

\* the entries of bundle b that carry the stop_uid u
EntriesWith(b, u) == {i \in 1..Len(merged[b].stops) : merged[b].stops[i].stop_uid = u}

\* the entry, if any, is built from the first occurrence of u for that bundle
FirstWins(b, u) ==
    /\ Cardinality(EntriesWith(b, u)) <= 1
    /\ \A i \in EntriesWith(b, u) :
         LET occ == SelectSeq(StopsOfKey(merged[b].direction), LAMBDA o : o.stop.StopUID = u)
         IN  /\ occ # <<>>
             /\ merged[b].stops[i].stop_id = occ[1].stop.StopID
             /\ merged[b].stops[i].stop_sequence = occ[1].stop.StopSequence

C6_Ordering ==
    mpc = "done" =>
        \A b \in 1..Len(merged) :
            LET st == merged[b].stops
                seqOf(i) == IF st[i].stop_sequence = Absent THEN 0 ELSE st[i].stop_sequence[1]
            IN  \A i \in 1..Len(st), j \in 1..Len(st) : i < j =>
                    /\ seqOf(i) <= seqOf(j)
                    /\ seqOf(i) = seqOf(j) => st[i].stop_id[1] < st[j].stop_id[1]

\* a bundle in which the sort moved a stop forward and left a tie between an
\* absent sequence and 0 in input order
C6_Witness ==
    /\ mpc = "done"
    /\ \E b \in 1..Len(merged) :
         LET st == merged[b].stops
         IN  /\ Len(st) = 3
             /\ st[1].stop_sequence # st[2].stop_sequence
             /\ SortKey(st[1]) = SortKey(st[2])
             /\ st[3].stop_id[1] < st[2].stop_id[1]

\* the ETA rows that have both keys and equal the entry's StopUID and the
\* Direction of the record the entry's stop is in
EtaMatches(entry) ==
    LET src == CHOOSE o \in {InputStops(1)[i] : i \in 1..Len(InputStops(1))} :
                    o.stop.StopID = entry.stop_id
    IN  {j \in 1..Len(eta_rows) :
            /\ eta_rows[j].StopUID # Absent
            /\ eta_rows[j].Direction # Absent
            /\ eta_rows[j].StopUID = entry.stop_uid
            /\ eta_rows[j].Direction = stop_rows[src.rec].Direction}

AllEntries ==
    UNION {{merged[b].stops[i] : i \in 1..Len(merged[b].stops)} : b \in 1..Len(merged)}

\* C7: every entry takes its four ETA fields from an ETA row with its StopUID
\* and its record's Direction when there is one and has them all absent
\* otherwise; every entry is a stop of the input and no stop yields two, so
\* ETA rows add no entry.
C7_EtaJoin ==
    mpc = "done" =>
        /\ \A e \in AllEntries :
            /\ \E i \in 1..Len(InputStops(1)) :
                 /\ InputStops(1)[i].stop.StopID = e.stop_id
                 /\ InputStops(1)[i].stop.StopUID = e.stop_uid
            /\ IF EtaMatches(e) # {}
               THEN \E j \in EtaMatches(e) :
                        /\ e.estimate_seconds = eta_rows[j].EstimateTime
                        /\ e.stop_status = eta_rows[j].StopStatus
                        /\ e.plate_numb = eta_rows[j].PlateNumb
                        /\ e.next_bus_time = eta_rows[j].NextBusTime
               ELSE /\ e.estimate_seconds = Absent
                    /\ e.stop_status = Absent
                    /\ e.plate_numb = Absent
                    /\ e.next_bus_time = Absent
        /\ \A b \in 1..Len(merged) : \A i, j \in 1..Len(merged[b].stops) :
                merged[b].stops[i].stop_id = merged[b].stops[j].stop_id => i = j

\* one entry got its ETA, and another with the same StopUID in the other
\* direction got none
C7_Witness ==
    /\ mpc = "done"
    /\ \E e1, e2 \in AllEntries :
         /\ e1.stop_uid = e2.stop_uid /\ TruthyUID(e1.stop_uid)
         /\ e1.direction # e2.direction
         /\ e1.estimate_seconds = Some(60)
         /\ e2.estimate_seconds = Absent /\ e2.plate_numb = Absent

\* the bundle keys of the input in the order they are first seen
RECURSIVE FirstSeenKeys(_, _)
FirstSeenKeys(r, acc) ==
    IF r > Len(stop_rows) THEN acc
    ELSE LET key == DirectionKey(stop_rows[r].Direction)
         IN  FirstSeenKeys(r + 1,
                IF \E i \in 1..Len(acc) : acc[i] = key THEN acc ELSE Append(acc, key))

\* C8: one bundle per distinct direction of the input (absent: -1), in
\* first-seen order, each with the route_name, headsign and update_time of the
\* first record of its direction.
C8_Bundles ==
    mpc = "done" =>
        /\ [b \in 1..Len(merged) |-> merged[b].direction] = FirstSeenKeys(1, <<>>)
        /\ \A b \in 1..Len(merged) :
            LET first == FirstRecordOfKey(merged[b].direction)
            IN  /\ merged[b].route_name =
                      IF first.RouteName = Absent THEN Some("") ELSE first.RouteName[1].Zh_tw
                /\ merged[b].headsign = first.Headsign
                /\ merged[b].update_time = first.UpdateTime

\* two records of one direction: the bundle kept the first one's fields
C8_Witness ==
    /\ mpc = "done"
    /\ Len(stop_rows) = 2
    /\ stop_rows[1].Direction = Absent /\ stop_rows[2].Direction = Some(-1)
    /\ Len(merged) = 1
    /\ merged[1].route_name = Some("R1") /\ merged[1].headsign = Some(<<"H", 1>>)

\* C10: every entry of a bundle carries the bundle's direction, also when the
\* record has no Direction and the bundle's direction is the sentinel -1.
C10_DirectionConsistent ==
    mpc = "done" =>
        \A b \in 1..Len(merged) : \A i \in 1..Len(merged[b].stops) :
            merged[b].stops[i].direction = Some(merged[b].direction)

(***************************************************************************)
(* Claims on the token cache and the upstream client                       *)
(***************************************************************************)

Reqs == DOMAIN req

\* request q's own token exchange succeeded (its POST returned an access token)
Exchanged(q) ==
    /\ req[q].post_answer # Absent
    /\ req[q].post_answer[1].kind = "ok"
    /\ ~Falsy(req[q].post_answer[1].access_token)

\* the expires_in of q's exchange, as line 61 reads it
ExpiresInOfReq(q) == ExpiresInOf(req[q].post_answer[1])

\* request p makes its call in this step
Calls(p) == req[p].pc = "idle" /\ req'[p].pc # "idle"

\* the request whose exchange produced the token tok
ExchangeOf(tok) == CHOOSE q \in Reqs : Exchanged(q) /\ Some(TokenOf(q)) = tok

C2_CacheValidity ==
    [][\A p \in Reqs :
        /\ (req[p].pc = "await_post" /\ req'[p].pc = "token") =>
              token_cache' =
                [access_token |-> Some(TokenOf(p)),
                 expires_at |->
                    req[p].now + Max(ExpiresInOf(req'[p].post_answer[1]) - 30, 0)]
        /\ Calls(p) =>
              /\ req'[p].hit <=>
                    (token_cache.access_token # Absent /\ now < token_cache.expires_at)
              /\ req'[p].hit => req'[p].posts = 0
              /\ (~req'[p].hit /\ creds) => req'[p].posts = 1]_vars

\* q exchanged, h was served q's token, and p, calling exactly at expires_at,
\* exchanged again
C2_Witness ==
    \E q, h, p \in Reqs :
        /\ Exchanged(q) /\ last = q
        /\ req[h].hit /\ req[h].token = Some(TokenOf(q))
        /\ req[p].pc = "await_post" /\ req[p].posts = 1
        /\ req[h].now < req[p].now
        /\ req[p].now = token_cache.expires_at

====
